---- MODULE Spec2Model ----
(***************************************************************************)
(* The scrape-and-persist pipeline of AiTutor: cnki_core.launch_cnki with  *)
(* extract_paper_info and extract_paper_details, and csv_tool's            *)
(* PaperCSVWriter; the command line of get_search_formula.py with          *)
(* aitutor_core.launch_cnki; and ai_analyze's EnhancedGeminiAnalyzer.      *)
(*                                                                         *)
(* A text (a Python str) is a sequence of one-character strings; the       *)
(* Python value None is the text-like value None below.  A dict is a       *)
(* function whose domain is its set of keys.  The source's dict keys are   *)
(* Chinese: title = 题名, author = 作者, source = 来源, date = 发表时间,   *)
(* database = 数据库, quote = 被引, download = 下载, abstract = 摘要,      *)
(* keywords = 关键词, fund = 基金资助, album = 专辑, topic = 专题,         *)
(* classno = 分类号, DOI = DOI, link = 详情链接.                           *)
(*                                                                         *)
(* The output file is the sequence of its CSV rows, each row the sequence  *)
(* of its field texts (the quoting of a field is not modelled).            *)
(***************************************************************************)
EXTENDS Integers, Sequences, FiniteSets, TLC

VARIABLES
    pc,             \* position of launch_cnki (or of the writer's caller)
    search_formula, \* launch_cnki's argument
    filesCreated,   \* number of files opened with mode 'w'
    disk,           \* rows of the output file that reached the file
    handle,         \* TRUE while a file object of the writer is open
    buf,            \* rows written to the open file object, not yet flushed
    paper_count,    \* PaperCSVWriter.paper_count
    wpc,            \* position inside write_paper
    paper_data,     \* write_paper's argument
    ret,            \* what the last write_paper call returned: {} for None,
                    \* {n} for the integer n
    browser,        \* "none", "open" or "closed"
    closes,         \* number of browser.close() calls
    filled,         \* text filled into the query text area (None: nothing)
    submitted,      \* TRUE once the search button was clicked
    all_papers,     \* extract_paper_info's list
    current_page,   \* extract_paper_info's page cursor
    rows,           \* the rows of the page being extracted
    i,              \* index of the next row of the page (0-based)
    papers,         \* launch_cnki's list of dicts
    idx,            \* index of the record being processed (1-based)
    out,            \* the messages printed
    result,         \* "running", "returned" or "raised"
    args,           \* the command line of get_search_formula.py, parsed
    analyzer,       \* the EnhancedGeminiAnalyzer object and what it did
    hist            \* history of the run, read by the properties only

vars == <<pc, search_formula, filesCreated, disk, handle, buf, paper_count, wpc,
          paper_data, ret, browser, closes, filled, submitted, all_papers,
          current_page, rows, i, papers, idx, out, result, args, analyzer,
          hist>>

-----------------------------------------------------------------------------
(* Bounds of the model *)

\* rows the result set has in all
MaxResults == 3
\* rows one results page shows
PageSize == 2
\* results pages the site serves
MaxPages == 2
\* write calls of the writer's direct caller
MaxWrites == 3

-----------------------------------------------------------------------------
(* Texts and dicts *)

None == <<"None">>

Whitespace == {" ", "\t", "\n"}

RECURSIVE LStrip(_)
LStrip(t) ==
    IF t # <<>> /\ Head(t) \in Whitespace THEN LStrip(Tail(t)) ELSE t

RECURSIVE RStrip(_)
RStrip(t) ==
    IF t # <<>> /\ t[Len(t)] \in Whitespace
    THEN RStrip(SubSeq(t, 1, Len(t) - 1))
    ELSE t

\* str.strip()
Strip(t) == RStrip(LStrip(t))

\* str.startswith(p)
StartsWith(t, p) == Len(t) >= Len(p) /\ SubSeq(t, 1, Len(p)) = p

\* dict.get(k, default)
Get(d, k, default) == IF k \in DOMAIN d THEN d[k] ELSE default

\* dict.update(e)
Update(d, e) ==
    [k \in DOMAIN d \cup DOMAIN e |-> IF k \in DOMAIN e THEN e[k] ELSE d[k]]

\* dict.pop(k, None)
Pop(d, k) == [x \in DOMAIN d \ {k} |-> d[x]]

EmptyDict == [k \in {} |-> <<>>]

\* x is not None
IsNotNone(t) == t # None

\* bool(x) of a text or None
Truthy(t) == t # None /\ t # <<>>

-----------------------------------------------------------------------------
(* csv_tool.PaperCSVWriter *)

fieldnames ==
    << "title", "author", "source", "date", "database", "quote", "download",
       "abstract", "keywords", "fund", "album", "topic", "classno", "DOI" >>

\* csv.DictWriter.writeheader(): the field names in fieldnames order
HeaderRow == [n \in 1..Len(fieldnames) |-> <<fieldnames[n]>>]

\* the dict write_paper builds from its argument, with 'N/A' for a missing field
RowOfNA(data) ==
    [f \in {fieldnames[n] : n \in 1..Len(fieldnames)} |->
        Get(data, f, <<"N", "/", "A">>)]

\* the dict write_paper builds from its argument
RowOf(data) ==
    [f \in {fieldnames[n] : n \in 1..Len(fieldnames)} |-> Get(data, f, <<>>)]

\* csv.DictWriter rejects a dict with a key that is no field name (ValueError)
HasExtraKeys(row) ==
    DOMAIN row \ {fieldnames[n] : n \in 1..Len(fieldnames)} # {}

\* csv.DictWriter.writerow(row): the values in fieldnames order
CsvRow(row) == [n \in 1..Len(fieldnames) |-> Get(row, fieldnames[n], <<>>)]

-----------------------------------------------------------------------------
(* The site: results rows and detail pages, as the locators see them.      *)
(* A cell is None when its selector matches nothing (count() = 0), else    *)
(* the text_content() of the element.  fault names the probe of the row    *)
(* (or of the page) at which the browser raises, "none" when none does.    *)

Host == << "h", "t", "t", "p", "s", ":", "/", "/", "k", "n", "s", ".",
           "c", "n", "k", "i", ".", "n", "e", "t" >>

Http == << "h", "t", "t", "p" >>

RowFull ==
    [ fz14 |-> <<" ", "A", " ">>, anchor |-> <<" ", "A", " ">>,
      href |-> <<"/", "a">>,
      author |-> <<"x", ";", "y", " ">>, source |-> <<"J">>,
      date |-> <<"d", " ", "t">>, data |-> <<"j">>,
      quote |-> <<"5">>, download |-> <<"9">>, fault |-> "none" ]

RowFallback ==
    [ fz14 |-> None, anchor |-> <<"B", "\n">>,
      href |-> Http \o <<":", "/", "/", "m", "/", "b">>,
      author |-> None, source |-> None, date |-> <<" ", "d">>, data |-> None,
      quote |-> None, download |-> None, fault |-> "none" ]

RowNoLink ==
    [ fz14 |-> <<"C">>, anchor |-> <<"C">>, href |-> None,
      author |-> <<"z">>, source |-> <<"K">>, date |-> None, data |-> <<"j">>,
      quote |-> <<"0">>, download |-> None, fault |-> "none" ]

RowUntitled ==
    [ fz14 |-> None, anchor |-> None, href |-> None,
      author |-> <<"x">>, source |-> <<"J">>, date |-> <<"d">>,
      data |-> <<"j">>, quote |-> <<"1">>, download |-> <<"2">>,
      fault |-> "none" ]

RowBroken ==
    [ fz14 |-> <<"D">>, anchor |-> <<"D">>, href |-> <<"/", "a">>,
      author |-> <<"x">>, source |-> <<"J">>, date |-> <<"d">>,
      data |-> <<"j">>, quote |-> <<"1">>, download |-> <<"2">>,
      fault |-> "source" ]

RowSamples == {RowFull, RowFallback, RowNoLink, RowUntitled, RowBroken}

\* the pages of at most PageSize rows the site can show
RECURSIVE PagesOf(_)
PagesOf(n) ==
    IF n = 0 THEN {<<>>}
    ELSE PagesOf(n - 1) \cup
         {Append(p, r) : p \in {q \in PagesOf(n - 1) : Len(q) = n - 1},
                         r \in RowSamples}

\* the detail page of the full record
DetailFull ==
    [ summary |-> <<" ", "s", "u">>, more |-> "visible",
      expanded |-> <<" ", "s", "u", "m", " ">>, summaryAlt |-> None,
      keyword |-> None, keywordAlt |-> <<"k", ";">>,
      fund |-> None, fundAlt |-> <<"f">>,
      album |-> <<"a", "l">>, topic |-> None,
      classno |-> <<"R", "1">>, classnoAlt |-> None,
      doi |-> <<"1", "0", ".", "1">>, fault |-> "none" ]

\* a detail page on which a probe raises after the abstract was read
DetailBroken ==
    [ summary |-> <<"s">>, more |-> "clickfails",
      expanded |-> <<"s", "s">>, summaryAlt |-> None,
      keyword |-> <<"k">>, keywordAlt |-> None,
      fund |-> <<"f">>, fundAlt |-> None,
      album |-> None, topic |-> None, classno |-> None, classnoAlt |-> None,
      doi |-> None, fault |-> "album" ]

\* a URL the site does not serve: page.goto raises
DetailUnreachable ==
    [ summary |-> None, more |-> "absent", expanded |-> None,
      summaryAlt |-> None,
      keyword |-> None, keywordAlt |-> None, fund |-> None, fundAlt |-> None,
      album |-> None, topic |-> None, classno |-> None, classnoAlt |-> None,
      doi |-> None, fault |-> "goto" ]

\* the page the site serves at an absolute URL
DetailPage(url) ==
    IF url = Host \o <<"/", "a">> THEN DetailFull
    ELSE IF url = Http \o <<":", "/", "/", "m", "/", "b">> THEN DetailBroken
    ELSE DetailUnreachable

-----------------------------------------------------------------------------
(* cnki_core.extract_paper_info: one row *)

RowProbes ==
    << "title", "author", "source", "date", "data", "quote", "download" >>

ProbeIndex(probes, p) == CHOOSE n \in 1..Len(probes) : probes[n] = p

\* the probe p of the element e ran to its end
Completed(e, probes, p) ==
    e.fault = "none" \/ ProbeIndex(probes, p) < ProbeIndex(probes, e.fault)

\* variant: full_date.split()[0], which cuts at any whitespace
DatePartAnyWhitespace(full_date) ==
    IF \E n \in 1..Len(full_date) : full_date[n] \in Whitespace
    THEN SubSeq(full_date, 1,
                (CHOOSE n \in 1..Len(full_date) :
                    /\ full_date[n] \in Whitespace
                    /\ \A m \in 1..(n - 1) : full_date[m] \notin Whitespace) - 1)
    ELSE full_date

\* full_date.split(' ')[0] when ' ' in full_date, else full_date
DatePart(full_date) ==
    IF \E n \in 1..Len(full_date) : full_date[n] = " "
    THEN SubSeq(full_date, 1,
                (CHOOSE n \in 1..Len(full_date) :
                    /\ full_date[n] = " "
                    /\ \A m \in 1..(n - 1) : full_date[m] # " ") - 1)
    ELSE full_date

\* the text of a cell, or the default when the selector matches nothing
Cell(r, c, default) == IF r[c] # None THEN Strip(r[c]) ELSE default

\* td.name a.fz14 or, failing that, the first td.name a
HasTitle(r) == r.fz14 # None \/ r.anchor # None

\* paper_info with every probe of the row done
FullInfo(r) ==
    [ title    |-> IF r.fz14 # None THEN Strip(r.fz14) ELSE Cell(r, "anchor", <<>>),
      link     |-> r.href,
      author   |-> Cell(r, "author", <<>>),
      source   |-> Cell(r, "source", <<>>),
      date     |-> IF r.date # None THEN DatePart(Strip(r.date)) ELSE <<>>,
      database |-> Cell(r, "data", <<>>),
      quote    |-> Cell(r, "quote", <<"0">>),
      download |-> Cell(r, "download", <<"0">>) ]

ProbeKeys(p) ==
    IF p = "title" THEN {"title", "link"}
    ELSE IF p = "data" THEN {"database"}
    ELSE {p}

\* paper_info as far as the probes of the row got
PaperInfo(r) ==
    LET done == UNION {ProbeKeys(RowProbes[n]) :
                        n \in {m \in 1..Len(RowProbes) :
                                 Completed(r, RowProbes, RowProbes[m])}}
    IN  [k \in done |-> FullInfo(r)[k]]

\* the body of the row loop without the continue of a row with no title
RowOutcomeNoSkip(r) ==
    IF r.fault # "none" THEN "error" ELSE "append"

\* how the body of the row loop ends: "append", "skip" (continue) or "error"
RowOutcome(r) ==
    IF r.fault = "title" THEN "error"
    ELSE IF ~HasTitle(r) THEN "skip"
    ELSE IF r.fault # "none" THEN "error"
    ELSE "append"

\* what the row adds to all_papers when only td.name a.fz14 gives a title
RowRecordsPrimaryOnly(r) ==
    IF RowOutcome(r) = "append" /\ r.fz14 # None THEN <<PaperInfo(r)>> ELSE <<>>

\* variant: the append runs for a row whose probe raised too
RowRecordsKeepPartial(r) ==
    IF RowOutcome(r) \in {"append", "error"} THEN <<PaperInfo(r)>> ELSE <<>>

\* what the row adds to all_papers
RowRecords(r) == IF RowOutcome(r) = "append" THEN <<PaperInfo(r)>> ELSE <<>>

-----------------------------------------------------------------------------
(* cnki_core.extract_paper_details *)

DetailProbes ==
    << "goto", "load", "abstract", "keywords", "fund", "album", "topic",
       "classno", "DOI" >>

DetailKeys ==
    {"abstract", "keywords", "fund", "album", "topic", "classno", "DOI"}

First(a, b) == IF a # None THEN Strip(a) ELSE IF b # None THEN Strip(b) ELSE <<>>

\* details with every probe of the page done
FullDetails(d) ==
    [ abstract |-> IF d.summary # None
                   THEN Strip(IF d.more = "visible" THEN d.expanded ELSE d.summary)
                   ELSE First(d.summaryAlt, None),
      keywords |-> First(d.keyword, d.keywordAlt),
      fund     |-> First(d.fund, d.fundAlt),
      album    |-> First(d.album, None),
      topic    |-> First(d.topic, None),
      classno  |-> First(d.classno, d.classnoAlt),
      DOI      |-> First(d.doi, None) ]

\* details as far as the probes of the page got
PartialDetails(d) ==
    [k \in {x \in DetailKeys : Completed(d, DetailProbes, x)} |-> FullDetails(d)[k]]

\* the dict the except branch returns
EmptyDetails == [k \in DetailKeys |-> <<>>]

\* the URL page.goto is given
AbsoluteUrl(detail_url) ==
    IF ~StartsWith(detail_url, Http) THEN Host \o detail_url ELSE detail_url

\* extract_paper_details keeping what it had read when a probe raises
DetailsKeepPartial(detail_url) ==
    PartialDetails(DetailPage(AbsoluteUrl(detail_url)))

extract_paper_details(detail_url) ==
    LET d == DetailPage(AbsoluteUrl(detail_url))
    IN  IF d.fault = "none" THEN FullDetails(d) ELSE EmptyDetails

\* extract_paper_details raised on this URL
DetailsRaised(detail_url) == DetailPage(AbsoluteUrl(detail_url)).fault # "none"

-----------------------------------------------------------------------------
(* The initial state: launch_cnki is about to be called *)

Queries == {None, <<>>, <<"A", "U", "=", "z">>}

NoHistory ==
    [ opens        |-> 0,      \* browser launches
      seen         |-> <<>>,   \* the rows enumerated, in page and row order
      renderFailed |-> 0,      \* the page whose container did not render
      pageError    |-> FALSE,  \* probing or activating the next control raised
      listed       |-> <<>>,   \* the records extract_paper_info returned
      detail       |-> <<>>,   \* per record: "none", "ok" or "raised"
      calls        |-> <<>>,   \* the arguments of the write_paper calls
      returned     |-> 0,      \* write_paper calls that returned
      bodyRaised   |-> FALSE,  \* the try body of launch_cnki raised
      at           |-> "",     \* where the run was when it was interrupted
      path         |-> "" ]    \* how launch_cnki got to its end

\* no command line was parsed
NoArgs == [author |-> None, affiliation |-> None]

\* no analyzer was constructed
NoAnalyzer ==
    [ passed   |-> None,  \* the api_key argument of the constructor
      env      |-> None,  \* os.getenv('GEMINI_API_KEY'): None when unset
      api_key  |-> None,  \* self.api_key
      client   |-> None,  \* self.client
      calls    |-> 0,     \* call_gemini_api calls
      requests |-> 0,     \* chat.completions.create requests issued
      reports  |-> 0,     \* report files opened for writing
      error    |-> "" ]   \* the message of the exception last raised

\* nothing has run: no file, no browser, no list, nothing printed
InitRun ==
    /\ filesCreated = 0
    /\ disk = <<>>
    /\ handle = FALSE
    /\ buf = <<>>
    /\ paper_count = 0
    /\ wpc = "idle"
    /\ paper_data = EmptyDict
    /\ ret = {}
    /\ browser = "none"
    /\ closes = 0
    /\ filled = None
    /\ submitted = FALSE
    /\ all_papers = <<>>
    /\ current_page = 0
    /\ rows = <<>>
    /\ i = 0
    /\ papers = <<>>
    /\ idx = 0
    /\ out = <<>>
    /\ result = "running"
    /\ hist = NoHistory

InitCommon ==
    /\ args = NoArgs
    /\ analyzer = NoAnalyzer
    /\ InitRun

Init ==
    /\ pc = "start"
    /\ search_formula \in Queries
    /\ InitCommon

Say(tag, n) == out' = Append(out, <<tag, n>>)

-----------------------------------------------------------------------------
(* csv_tool.PaperCSVWriter *)

\* a constructor that leaves the file to the first write
InitializeCsvLazy ==
    /\ paper_count' = 0
    /\ UNCHANGED <<filesCreated, disk, handle, buf>>

\* __init__ and _initialize_csv: open(filepath, 'w'), writeheader, close
InitializeCsv ==
    /\ filesCreated' = filesCreated + 1
    /\ disk' = <<HeaderRow>>
    /\ paper_count' = 0
    /\ UNCHANGED <<handle, buf>>

\* write_paper opening the file with mode 'w'
WriteOpenTruncate ==
    /\ wpc = "open"
    /\ handle' = TRUE
    /\ disk' = <<>>
    /\ buf' = <<>>
    /\ wpc' = "row"
    /\ UNCHANGED <<pc, args, analyzer, search_formula, filesCreated, paper_count,
                   paper_data, ret, browser, closes, filled, submitted,
                   all_papers, current_page, rows, i, papers, idx, out,
                   result, hist>>

\* write_paper: open(filepath, 'a')
WriteOpen ==
    /\ wpc = "open"
    /\ handle' = TRUE
    /\ buf' = <<>>
    /\ wpc' = "row"
    /\ UNCHANGED <<pc, args, analyzer, search_formula, filesCreated, disk, paper_count,
                   paper_data, ret, browser, closes, filled, submitted,
                   all_papers, current_page, rows, i, papers, idx, out,
                   result, hist>>

\* write_paper: build the row, writerow, count, print
WriteRow ==
    /\ wpc = "row"
    /\ LET row == RowOf(paper_data)
       IN  IF HasExtraKeys(row)
           THEN /\ Say("write_error", paper_count)
                /\ UNCHANGED <<buf, paper_count>>
           ELSE /\ buf' = Append(buf, CsvRow(row))
                /\ paper_count' = paper_count + 1
                /\ Say("saved_paper", paper_count + 1)
    /\ wpc' = "close"
    /\ UNCHANGED <<pc, args, analyzer, search_formula, filesCreated, disk, handle, paper_data,
                   ret, browser, closes, filled, submitted, all_papers,
                   current_page, rows, i, papers, idx, result, hist>>

\* write_paper leaving out a row the file already holds
WriteCloseDedup ==
    /\ wpc = "close"
    /\ disk' = disk \o SelectSeq(buf, LAMBDA r : \A k \in 1..Len(disk) : disk[k] # r)
    /\ buf' = <<>>
    /\ handle' = FALSE
    /\ ret' = ret
    /\ wpc' = "returned"
    /\ hist' = [hist EXCEPT !.returned = @ + 1]
    /\ UNCHANGED <<pc, args, analyzer, search_formula, filesCreated, paper_count, paper_data,
                   browser, closes, filled, submitted, all_papers,
                   current_page, rows, i, papers, idx, out, result>>

\* write_paper: the with block closes the file; the function returns None
WriteClose ==
    /\ wpc = "close"
    /\ disk' = disk \o buf
    /\ buf' = <<>>
    /\ handle' = FALSE
    /\ ret' = {}
    /\ wpc' = "returned"
    /\ hist' = [hist EXCEPT !.returned = @ + 1]
    /\ UNCHANGED <<pc, args, analyzer, search_formula, filesCreated, paper_count, paper_data,
                   browser, closes, filled, submitted, all_papers,
                   current_page, rows, i, papers, idx, out, result>>

get_count == paper_count

-----------------------------------------------------------------------------
(* cnki_core.launch_cnki *)

\* if not search_formula: print, return
CheckFormula ==
    /\ pc = "start"
    /\ IF ~Truthy(search_formula)
       THEN /\ Say("no_formula", 0)
            /\ pc' = "done"
            /\ result' = "returned"
            /\ hist' = [hist EXCEPT !.path = "no_formula"]
       ELSE /\ Say("formula", 0)
            /\ pc' = "create_writer"
            /\ UNCHANGED <<result, hist>>
    /\ UNCHANGED <<args, analyzer, search_formula, filesCreated, disk, handle, buf,
                   paper_count, wpc, paper_data, ret, browser, closes, filled,
                   submitted, all_papers, current_page, rows, i, papers, idx>>

\* csv_writer = create_paper_csv_writer()
CreateWriter ==
    /\ pc = "create_writer"
    /\ InitializeCsv
    /\ Say("csv_created", 0)
    /\ pc' = "launch"
    /\ UNCHANGED <<args, analyzer, search_formula, wpc, paper_data, ret, browser, closes,
                   filled, submitted, all_papers, current_page, rows, i,
                   papers, idx, result, hist>>

\* with sync_playwright(): launch, new_context, new_page
OpenSession ==
    /\ pc = "launch"
    /\ browser' = "open"
    /\ hist' = [hist EXCEPT !.opens = @ + 1]
    /\ pc' = "goto"
    /\ UNCHANGED <<args, analyzer, search_formula, filesCreated, disk, handle, buf,
                   paper_count, wpc, paper_data, ret, closes, filled,
                   submitted, all_papers, current_page, rows, i, papers, idx,
                   out, result>>

\* an exception in the try body is caught by launch_cnki's except
Raise ==
    /\ pc' = "except"
    /\ hist' = [hist EXCEPT !.bodyRaised = TRUE]

\* page.goto(search page); sleep
GotoSearch ==
    /\ pc = "goto"
    /\ \E ok \in BOOLEAN :
          IF ok
          THEN /\ Say("navigated", 0)
               /\ pc' = "major"
               /\ UNCHANGED hist
          ELSE /\ Raise
               /\ UNCHANGED out
    /\ UNCHANGED <<args, analyzer, search_formula, filesCreated, disk, handle, buf,
                   paper_count, wpc, paper_data, ret, browser, closes, filled,
                   submitted, all_papers, current_page, rows, i, papers, idx,
                   result>>

\* the majorSearch control: clicked when present
SwitchMode ==
    /\ pc = "major"
    /\ \E control \in {"absent", "present", "clickfails"} :
          IF control = "clickfails"
          THEN Raise
          ELSE /\ pc' = "textarea"
               /\ UNCHANGED hist
    /\ UNCHANGED <<args, analyzer, search_formula, filesCreated, disk, handle, buf,
                   paper_count, wpc, paper_data, ret, browser, closes, filled,
                   submitted, all_papers, current_page, rows, i, papers, idx,
                   out, result>>

\* variant: the search button code runs after the "not found" branch too
LocateTextAreaFallsThrough ==
    /\ pc = "textarea"
    /\ \E area \in {"absent", "present", "fillfails"} :
          CASE area = "absent" ->
                  /\ Say("no_textarea", 0)
                  /\ pc' = "search"
                  /\ hist' = [hist EXCEPT !.path = "no_textarea"]
                  /\ UNCHANGED filled
            [] area = "present" ->
                  /\ filled' = search_formula
                  /\ pc' = "search"
                  /\ UNCHANGED <<out, hist>>
            [] area = "fillfails" ->
                  /\ Raise
                  /\ UNCHANGED <<out, filled>>
    /\ UNCHANGED <<args, analyzer, search_formula, filesCreated, disk, handle, buf,
                   paper_count, wpc, paper_data, ret, browser, closes,
                   submitted, all_papers, current_page, rows, i, papers, idx,
                   result>>

\* the query text area: filled when present, else "not found" is printed
LocateTextArea ==
    /\ pc = "textarea"
    /\ \E area \in {"absent", "present", "fillfails"} :
          CASE area = "absent" ->
                  /\ Say("no_textarea", 0)
                  /\ pc' = "finally"
                  /\ hist' = [hist EXCEPT !.path = "no_textarea"]
                  /\ UNCHANGED filled
            [] area = "present" ->
                  /\ filled' = search_formula
                  /\ pc' = "search"
                  /\ UNCHANGED <<out, hist>>
            [] area = "fillfails" ->
                  /\ Raise
                  /\ UNCHANGED <<out, filled>>
    /\ UNCHANGED <<args, analyzer, search_formula, filesCreated, disk, handle, buf,
                   paper_count, wpc, paper_data, ret, browser, closes,
                   submitted, all_papers, current_page, rows, i, papers, idx,
                   result>>

\* search_button.click(); sleep; extract_paper_info starts
ClickSearch ==
    /\ pc = "search"
    /\ \E ok \in BOOLEAN :
          IF ok
          THEN /\ submitted' = TRUE
               /\ Say("searching", 0)
               /\ all_papers' = <<>>
               /\ current_page' = 1
               /\ pc' = "page"
               /\ UNCHANGED hist
          ELSE /\ Raise
               /\ UNCHANGED <<submitted, out, all_papers, current_page>>
    /\ UNCHANGED <<args, analyzer, search_formula, filesCreated, disk, handle, buf,
                   paper_count, wpc, paper_data, ret, browser, closes, filled,
                   rows, i, papers, idx, result>>

-----------------------------------------------------------------------------
(* cnki_core.extract_paper_info, as launch_cnki calls it *)

\* the rows the site may show on the next page it serves
PagesLeft == {p \in PagesOf(PageSize) : Len(hist.seen) + Len(p) <= MaxResults}

\* the except of the page loop: print, break
PageLoopBreak ==
    /\ pc' = "list_done"
    /\ UNCHANGED <<rows, i>>

\* the timeout of wait_for_selector swallowed: the rows are enumerated anyway
RenderFailsIgnored ==
    /\ pc = "page"
    /\ \E p \in PagesLeft :
          /\ rows' = p
          /\ i' = 0
          /\ pc' = IF Len(p) = 0 THEN "list_done" ELSE "row"
    /\ Say("page_error", current_page)
    /\ hist' = [hist EXCEPT !.renderFailed = current_page]
    /\ UNCHANGED <<args, analyzer, search_formula, filesCreated, disk, handle, buf,
                   paper_count, wpc, paper_data, ret, browser, closes, filled,
                   submitted, all_papers, current_page, papers, idx, result>>

\* variant: the timeout of wait_for_selector leaves extract_paper_info
RenderFailsPropagates ==
    /\ pc = "page"
    /\ Say("page_error", current_page)
    /\ pc' = "except"
    /\ hist' = [hist EXCEPT !.renderFailed = current_page,
                            !.bodyRaised = TRUE]
    /\ UNCHANGED <<rows, i>>
    /\ UNCHANGED <<args, analyzer, search_formula, filesCreated, disk, handle, buf,
                   paper_count, wpc, paper_data, ret, browser, closes, filled,
                   submitted, all_papers, current_page, papers, idx, result>>

\* wait_for_selector times out: the results container never rendered
RenderFails ==
    /\ pc = "page"
    /\ Say("page_error", current_page)
    /\ hist' = [hist EXCEPT !.renderFailed = current_page]
    /\ PageLoopBreak
    /\ UNCHANGED <<args, analyzer, search_formula, filesCreated, disk, handle, buf,
                   paper_count, wpc, paper_data, ret, browser, closes, filled,
                   submitted, all_papers, current_page, papers, idx, result>>

\* the container rendered: the rows are enumerated; no row ends the loop
EnumerateRows ==
    /\ pc = "page"
    /\ \E p \in PagesLeft :
          /\ rows' = p
          /\ i' = 0
          /\ Say("rows_found", Len(p))
          /\ pc' = IF Len(p) = 0 THEN "list_done" ELSE "row"
    /\ UNCHANGED <<args, analyzer, search_formula, filesCreated, disk, handle, buf,
                   paper_count, wpc, paper_data, ret, browser, closes, filled,
                   submitted, all_papers, current_page, papers, idx, result,
                   hist>>

\* variant: each record is written to the file as soon as it is extracted
ExtractRowWritesThrough ==
    /\ pc = "row"
    /\ i < Len(rows)
    /\ all_papers' = all_papers \o RowRecords(rows[i + 1])
    /\ disk' = disk \o [k \in 1..Len(RowRecords(rows[i + 1])) |->
                           CsvRow(RowOf(RowRecords(rows[i + 1])[k]))]
    /\ hist' = [hist EXCEPT !.seen = Append(@, rows[i + 1])]
    /\ IF RowOutcome(rows[i + 1]) = "error"
       THEN Say("row_error", i + 1)
       ELSE UNCHANGED out
    /\ i' = i + 1
    /\ pc' = IF i + 1 = Len(rows) THEN "next" ELSE "row"
    /\ UNCHANGED <<args, analyzer, search_formula, filesCreated, handle, buf,
                   paper_count, wpc, paper_data, ret, browser, closes, filled,
                   submitted, current_page, rows, papers, idx, result>>

\* the body of the row loop for row i
ExtractRow ==
    /\ pc = "row"
    /\ i < Len(rows)
    /\ all_papers' = all_papers \o RowRecords(rows[i + 1])
    /\ hist' = [hist EXCEPT !.seen = Append(@, rows[i + 1])]
    /\ IF RowOutcome(rows[i + 1]) = "error"
       THEN Say("row_error", i + 1)
       ELSE UNCHANGED out
    /\ i' = i + 1
    /\ pc' = IF i + 1 = Len(rows) THEN "next" ELSE "row"
    /\ UNCHANGED <<args, analyzer, search_formula, filesCreated, disk, handle, buf,
                   paper_count, wpc, paper_data, ret, browser, closes, filled,
                   submitted, current_page, rows, papers, idx, result>>

\* no next control, or a disabled one: the page loop ends
NoNextPage ==
    /\ pc = "next"
    /\ Say("no_more_pages", current_page)
    /\ pc' = "list_done"
    /\ UNCHANGED <<args, analyzer, search_formula, filesCreated, disk, handle, buf,
                   paper_count, wpc, paper_data, ret, browser, closes, filled,
                   submitted, all_papers, current_page, rows, i, papers, idx,
                   result, hist>>

\* variant: the click succeeds and the page cursor is left as it is
NextPageNoIncrement ==
    /\ pc = "next"
    /\ current_page < MaxPages
    /\ pc' = "page"
    /\ UNCHANGED <<args, analyzer, search_formula, filesCreated, disk, handle,
                   buf, paper_count, wpc, paper_data, ret, browser, closes,
                   filled, submitted, all_papers, current_page, rows, i,
                   papers, idx, out, result, hist>>

\* an enabled next control is clicked: the page cursor advances
NextPage ==
    /\ pc = "next"
    /\ current_page < MaxPages
    /\ current_page' = current_page + 1
    /\ pc' = "page"
    /\ UNCHANGED <<args, analyzer, search_formula, filesCreated, disk, handle, buf,
                   paper_count, wpc, paper_data, ret, browser, closes, filled,
                   submitted, all_papers, rows, i, papers, idx, out, result,
                   hist>>

\* is_enabled() or click() raises: the page loop ends
NextPageRaises ==
    /\ pc = "next"
    /\ \E at \in {"is_enabled", "click"} :
          Say(IF at = "click" THEN "turn_error" ELSE "page_error", current_page)
    /\ hist' = [hist EXCEPT !.pageError = TRUE]
    /\ PageLoopBreak
    /\ UNCHANGED <<args, analyzer, search_formula, filesCreated, disk, handle, buf,
                   paper_count, wpc, paper_data, ret, browser, closes, filled,
                   submitted, all_papers, current_page, papers, idx, result>>

\* extract_paper_info returns; launch_cnki returns when the list is empty
ReturnPapers ==
    /\ pc = "list_done"
    /\ papers' = all_papers
    /\ hist' = [hist EXCEPT !.listed = all_papers,
                            !.path = IF all_papers = <<>> THEN "no_papers" ELSE @]
    /\ IF all_papers = <<>>
       THEN /\ out' = out \o << <<"total", 0>>, <<"not_found", 0>> >>
            /\ pc' = "finally"
            /\ UNCHANGED idx
       ELSE /\ out' = out \o << <<"total", Len(all_papers)>>,
                                <<"details_start", Len(all_papers)>> >>
            /\ idx' = 1
            /\ pc' = "detail"
    /\ UNCHANGED <<args, analyzer, search_formula, filesCreated, disk, handle, buf,
                   paper_count, wpc, paper_data, ret, browser, closes, filled,
                   submitted, all_papers, current_page, rows, i, result>>

-----------------------------------------------------------------------------
(* cnki_core.launch_cnki: the loop over the records *)

\* variant: the details of every record are extracted before the first write
MergeDetailsAllFirst ==
    /\ pc = "detail"
    /\ IF idx = 1
       THEN /\ papers' =
                  [k \in 1..Len(papers) |->
                      LET link == Get(papers[k], "link", None)
                      IN  Pop(IF Truthy(link)
                              THEN Update(papers[k], extract_paper_details(link))
                              ELSE papers[k],
                              "link")]
            /\ hist' = [hist EXCEPT !.detail =
                          [k \in 1..Len(papers) |->
                              LET link == Get(papers[k], "link", None)
                              IN  IF ~Truthy(link) THEN "none"
                                  ELSE IF DetailsRaised(link) THEN "raised"
                                  ELSE "ok"]]
       ELSE UNCHANGED <<papers, hist>>
    /\ pc' = "write"
    /\ UNCHANGED <<args, analyzer, search_formula, filesCreated, disk, handle,
                   buf, paper_count, wpc, paper_data, ret, browser, closes,
                   filled, submitted, all_papers, current_page, rows, i, idx,
                   out, result>>

\* the details of papers[idx] are merged into it, and its link is removed
MergeDetails ==
    /\ pc = "detail"
    /\ LET paper == papers[idx]
           link  == Get(paper, "link", None)
           merged == IF Truthy(link)
                     THEN Update(paper, extract_paper_details(link))
                     ELSE paper
       IN  /\ papers' = [papers EXCEPT ![idx] = Pop(merged, "link")]
           /\ hist' = [hist EXCEPT !.detail =
                          Append(@, IF ~Truthy(link) THEN "none"
                                    ELSE IF DetailsRaised(link) THEN "raised"
                                    ELSE "ok")]
    /\ pc' = "write"
    /\ UNCHANGED <<args, analyzer, search_formula, filesCreated, disk, handle, buf,
                   paper_count, wpc, paper_data, ret, browser, closes, filled,
                   submitted, all_papers, current_page, rows, i, idx, out,
                   result>>

\* csv_writer.write_paper(paper) is called
CallWrite ==
    /\ pc = "write"
    /\ wpc = "idle"
    /\ paper_data' = papers[idx]
    /\ wpc' = "open"
    /\ hist' = [hist EXCEPT !.calls = Append(@, papers[idx])]
    /\ pc' = "in_write"
    /\ UNCHANGED <<args, analyzer, search_formula, filesCreated, disk, handle, buf,
                   paper_count, ret, browser, closes, filled, submitted,
                   all_papers, current_page, rows, i, papers, idx, out,
                   result>>

\* write_paper has returned; sleep; the next record, or the report
NextRecord ==
    /\ pc = "in_write"
    /\ wpc = "returned"
    /\ wpc' = "idle"
    /\ IF idx < Len(papers)
       THEN /\ idx' = idx + 1
            /\ pc' = "detail"
            /\ UNCHANGED out
       ELSE /\ Say("processed", get_count)
            /\ pc' = "input"
            /\ UNCHANGED idx
    /\ UNCHANGED <<args, analyzer, search_formula, filesCreated, disk, handle, buf,
                   paper_count, paper_data, ret, browser, closes, filled,
                   submitted, all_papers, current_page, rows, i, papers,
                   result, hist>>

\* input(): the user presses Enter, or the input stream has ended (EOFError)
AwaitEnter ==
    /\ pc = "input"
    /\ \E ok \in BOOLEAN :
          IF ok
          THEN /\ pc' = "finally"
               /\ hist' = [hist EXCEPT !.path = "complete"]
          ELSE Raise
    /\ UNCHANGED <<args, analyzer, search_formula, filesCreated, disk, handle, buf,
                   paper_count, wpc, paper_data, ret, browser, closes, filled,
                   submitted, all_papers, current_page, rows, i, papers, idx,
                   out, result>>

\* except Exception: the error and the count of saved records are printed
HandleException ==
    /\ pc = "except"
    /\ out' = out \o << <<"run_error", 0>>, <<"saved", get_count>> >>
    /\ hist' = [hist EXCEPT !.path = "exception"]
    /\ pc' = "finally"
    /\ UNCHANGED <<args, analyzer, search_formula, filesCreated, disk, handle, buf,
                   paper_count, wpc, paper_data, ret, browser, closes, filled,
                   submitted, all_papers, current_page, rows, i, papers, idx,
                   result>>

\* a finally that closes nothing
FinallyNoClose ==
    /\ pc = "finally"
    /\ pc' = "done"
    /\ result' = "returned"
    /\ UNCHANGED <<args, analyzer, search_formula, filesCreated, disk, handle, buf,
                   paper_count, wpc, paper_data, ret, browser, closes, filled,
                   submitted, all_papers, current_page, rows, i, papers, idx,
                   out, hist>>

\* finally: browser.close(); launch_cnki returns
Finally ==
    /\ pc = "finally"
    /\ browser' = "closed"
    /\ closes' = closes + 1
    /\ Say("browser_closed", 0)
    /\ pc' = "done"
    /\ result' = "returned"
    /\ UNCHANGED <<args, analyzer, search_formula, filesCreated, disk, handle, buf,
                   paper_count, wpc, paper_data, ret, filled, submitted,
                   all_papers, current_page, rows, i, papers, idx, hist>>

Next ==
    \/ CheckFormula
    \/ CreateWriter
    \/ OpenSession
    \/ GotoSearch
    \/ SwitchMode
    \/ LocateTextArea
    \/ ClickSearch
    \/ RenderFails
    \/ EnumerateRows
    \/ ExtractRow
    \/ NoNextPage
    \/ NextPage
    \/ NextPageRaises
    \/ ReturnPapers
    \/ MergeDetails
    \/ CallWrite
    \/ WriteOpen
    \/ WriteRow
    \/ WriteClose
    \/ NextRecord
    \/ AwaitEnter
    \/ HandleException
    \/ Finally

Spec == Init /\ [][Next]_vars

-----------------------------------------------------------------------------
(* The writer used on its own: a caller constructs it and calls write_paper *)
(* with dicts of any keys.                                                 *)

RecFull ==
    [ title |-> <<"T">>, author |-> <<"x">>, source |-> <<"J">>,
      date |-> <<"d">>, database |-> <<"j">>, quote |-> <<"5">>,
      download |-> <<"9">>, abstract |-> <<"s">>, keywords |-> <<"k">>,
      fund |-> <<"f">>, album |-> <<"a">>, topic |-> <<"t">>,
      classno |-> <<"R">>, DOI |-> <<"1">> ]

RecPrimary ==
    [ title |-> <<"U">>, author |-> <<"y">>, source |-> <<>>,
      date |-> <<"d">>, database |-> <<>>, quote |-> <<"0">>,
      download |-> <<"0">> ]

RecWithLink ==
    [ title |-> <<"V">>, link |-> <<"/", "a">>, DOI |-> <<"2">> ]

RecordSamples == {RecFull, RecPrimary, RecWithLink, EmptyDict}

InitWriter ==
    /\ pc = "test_new"
    /\ search_formula = None
    /\ InitCommon

\* PaperCSVWriter() is constructed
TestConstruct ==
    /\ pc = "test_new"
    /\ InitializeCsv
    /\ Say("csv_created", 0)
    /\ pc' = "test"
    /\ UNCHANGED <<args, analyzer, search_formula, wpc, paper_data, ret, browser, closes,
                   filled, submitted, all_papers, current_page, rows, i,
                   papers, idx, result, hist>>

\* write_paper(rec) is called
TestWrite ==
    /\ pc = "test"
    /\ wpc = "idle"
    /\ Len(hist.calls) < MaxWrites
    /\ \E rec \in RecordSamples :
          /\ paper_data' = rec
          /\ hist' = [hist EXCEPT !.calls = Append(@, rec)]
    /\ wpc' = "open"
    /\ UNCHANGED <<pc, args, analyzer, search_formula, filesCreated, disk, handle, buf,
                   paper_count, ret, browser, closes, filled, submitted,
                   all_papers, current_page, rows, i, papers, idx, out,
                   result>>

\* write_paper has returned to its caller
TestReturn ==
    /\ pc = "test"
    /\ wpc = "returned"
    /\ wpc' = "idle"
    /\ UNCHANGED <<pc, args, analyzer, search_formula, filesCreated, disk, handle, buf,
                   paper_count, paper_data, ret, browser, closes, filled,
                   submitted, all_papers, current_page, rows, i, papers, idx,
                   out, result, hist>>

NextWriter ==
    \/ TestConstruct
    \/ TestWrite
    \/ WriteOpen
    \/ WriteRow
    \/ WriteClose
    \/ TestReturn

SpecWriter == InitWriter /\ [][NextWriter]_vars

-----------------------------------------------------------------------------
(* The run interrupted after the writer is constructed *)

Running == filesCreated > 0 /\ pc \notin {"done", "interrupted"}

\* KeyboardInterrupt: the with block of write_paper closes (and flushes) the
\* file, the finally of launch_cnki closes the browser, the process ends
KeyboardInterrupt ==
    /\ Running
    /\ disk' = disk \o buf
    /\ buf' = <<>>
    /\ handle' = FALSE
    /\ IF browser = "open"
       THEN /\ browser' = "closed"
            /\ closes' = closes + 1
            /\ Say("browser_closed", 0)
       ELSE UNCHANGED <<browser, closes, out>>
    /\ pc' = "interrupted"
    /\ wpc' = "interrupted"
    /\ result' = "raised"
    /\ hist' = [hist EXCEPT !.at = pc]
    /\ UNCHANGED <<args, analyzer, search_formula, filesCreated, paper_count,
                   paper_data, ret, filled, submitted, all_papers,
                   current_page, rows, i, papers, idx>>

\* the process is killed: what the file object buffered is lost
Killed ==
    /\ Running
    /\ buf' = <<>>
    /\ handle' = FALSE
    /\ pc' = "interrupted"
    /\ wpc' = "interrupted"
    /\ result' = "killed"
    /\ hist' = [hist EXCEPT !.at = pc]
    /\ UNCHANGED <<args, analyzer, search_formula, filesCreated, disk,
                   paper_count, paper_data, ret, browser, closes, filled,
                   submitted, all_papers, current_page, rows, i, papers, idx,
                   out>>

NextInterrupt ==
    \/ Next
    \/ KeyboardInterrupt
    \/ Killed

SpecInterrupt == Init /\ [][NextInterrupt]_vars

-----------------------------------------------------------------------------
(* The run on a file system that can refuse the CSV file, or a write to it *)

\* _initialize_csv failing: open(filepath, 'w') raises and no file exists,
\* or writeheader raises and the file is left empty; the except prints and
\* re-raises
InitializeCsvFails ==
    /\ \E at \in {"open", "writeheader"} :
          IF at = "open"
          THEN UNCHANGED <<filesCreated, disk>>
          ELSE /\ filesCreated' = filesCreated + 1
               /\ disk' = <<>>
    /\ Say("csv_init_error", 0)
    /\ UNCHANGED <<handle, buf, paper_count>>

\* variant: the except of _initialize_csv does not re-raise
CreateWriterFailsSwallowed ==
    /\ pc = "create_writer"
    /\ InitializeCsvFails
    /\ pc' = "launch"
    /\ hist' = [hist EXCEPT !.path = "csv_error"]
    /\ UNCHANGED <<args, analyzer, search_formula, wpc, paper_data, ret, browser, closes,
                   filled, submitted, all_papers, current_page, rows, i,
                   papers, idx, result>>

\* csv_writer = create_paper_csv_writer() raising: the call is outside the
\* try of launch_cnki, so the exception leaves launch_cnki
CreateWriterFails ==
    /\ pc = "create_writer"
    /\ InitializeCsvFails
    /\ pc' = "done"
    /\ result' = "raised"
    /\ hist' = [hist EXCEPT !.path = "csv_error"]
    /\ UNCHANGED <<args, analyzer, search_formula, wpc, paper_data, ret, browser, closes,
                   filled, submitted, all_papers, current_page, rows, i,
                   papers, idx>>

\* write_paper: open(filepath, 'a') raises; the except prints, the
\* function returns None
WriteOpenFails ==
    /\ wpc = "open"
    /\ Say("write_error", paper_count)
    /\ ret' = {}
    /\ wpc' = "returned"
    /\ hist' = [hist EXCEPT !.returned = @ + 1]
    /\ UNCHANGED <<pc, args, analyzer, search_formula, filesCreated, disk,
                   handle, buf, paper_count, paper_data, browser, closes,
                   filled, submitted, all_papers, current_page, rows, i,
                   papers, idx, result>>

\* write_paper: writerow raises; the with block closes the file, which
\* holds nothing new; the except prints, the function returns None
WriteRowFails ==
    /\ wpc = "row"
    /\ Say("write_error", paper_count)
    /\ handle' = FALSE
    /\ buf' = <<>>
    /\ ret' = {}
    /\ wpc' = "returned"
    /\ hist' = [hist EXCEPT !.returned = @ + 1]
    /\ UNCHANGED <<pc, args, analyzer, search_formula, filesCreated, disk,
                   paper_count, paper_data, browser, closes, filled,
                   submitted, all_papers, current_page, rows, i, papers, idx,
                   result>>

\* write_paper: the row is in the file object's buffer and is counted; the
\* close at the end of the with block cannot flush it (the disk is full)
\* and raises; the except prints, the function returns None
WriteCloseFails ==
    /\ wpc = "close"
    /\ Say("write_error", paper_count)
    /\ handle' = FALSE
    /\ buf' = <<>>
    /\ ret' = {}
    /\ wpc' = "returned"
    /\ hist' = [hist EXCEPT !.returned = @ + 1]
    /\ UNCHANGED <<pc, args, analyzer, search_formula, filesCreated, disk,
                   paper_count, paper_data, browser, closes, filled,
                   submitted, all_papers, current_page, rows, i, papers, idx,
                   result>>

NextIO ==
    \/ Next
    \/ CreateWriterFails

SpecIO == Init /\ [][NextIO]_vars

NextWriteFaults ==
    \/ Next
    \/ WriteOpenFails
    \/ WriteRowFails
    \/ WriteCloseFails

SpecWriteFaults == Init /\ [][NextWriteFaults]_vars

-----------------------------------------------------------------------------
(* The date column: one results row whose date cell holds any short text *)

\* the longest date cell text tried
MaxDateLen == 4

DateChars == {"2", " ", "\t"}

\* text_content() of the td.date cell, None when the row has no such cell
DateTexts == UNION {[1..n -> DateChars] : n \in 0..MaxDateLen} \cup {None}

\* the first results page has rendered and shows one row
InitDate ==
    /\ pc = "row"
    /\ search_formula = <<"A", "U", "=", "z">>
    /\ filesCreated = 1
    /\ disk = <<HeaderRow>>
    /\ handle = FALSE
    /\ buf = <<>>
    /\ paper_count = 0
    /\ wpc = "idle"
    /\ paper_data = EmptyDict
    /\ ret = {}
    /\ browser = "open"
    /\ closes = 0
    /\ filled = search_formula
    /\ submitted = TRUE
    /\ all_papers = <<>>
    /\ current_page = 1
    /\ \E t \in DateTexts : rows = <<[RowFull EXCEPT !.date = t]>>
    /\ i = 0
    /\ papers = <<>>
    /\ idx = 0
    /\ out = << <<"formula", 0>>, <<"csv_created", 0>>, <<"navigated", 0>>,
                <<"searching", 0>>, <<"rows_found", 1>> >>
    /\ result = "running"
    /\ args = NoArgs
    /\ analyzer = NoAnalyzer
    /\ hist = [NoHistory EXCEPT !.opens = 1]

NextDate == ExtractRow

SpecDate == InitDate /\ [][NextDate]_vars

-----------------------------------------------------------------------------
(* extract_paper_info on its own: the query is filled in, the search is    *)
(* submitted and the pages are listed until the page loop ends.  The       *)
(* program is one sequential process, which takes its next step whenever   *)
(* it has one.                                                             *)

InitPages ==
    /\ pc = "search"
    /\ search_formula = <<"A", "U", "=", "z">>
    /\ filesCreated = 1
    /\ disk = <<HeaderRow>>
    /\ handle = FALSE
    /\ buf = <<>>
    /\ paper_count = 0
    /\ wpc = "idle"
    /\ paper_data = EmptyDict
    /\ ret = {}
    /\ browser = "open"
    /\ closes = 0
    /\ filled = search_formula
    /\ submitted = FALSE
    /\ all_papers = <<>>
    /\ current_page = 0
    /\ rows = <<>>
    /\ i = 0
    /\ papers = <<>>
    /\ idx = 0
    /\ out = << <<"formula", 0>>, <<"csv_created", 0>>, <<"navigated", 0>> >>
    /\ result = "running"
    /\ args = NoArgs
    /\ analyzer = NoAnalyzer
    /\ hist = [NoHistory EXCEPT !.opens = 1]

NextPages ==
    \/ ClickSearch
    \/ RenderFails
    \/ EnumerateRows
    \/ ExtractRow
    \/ NoNextPage
    \/ NextPage
    \/ NextPageRaises
    \/ ReturnPapers

SpecPages == InitPages /\ [][NextPages]_vars /\ WF_vars(NextPages)

-----------------------------------------------------------------------------
(* get_search_formula.py: the command line, and aitutor_core.launch_cnki  *)
(* which its main calls (the module aitutor_core.py, which only submits   *)
(* the query and waits).                                                   *)

\* what argparse gives for -AU and for -AF: None when the option is absent
AuthorArgs == {None, <<>>, <<"z">>, <<"l", "i">>}

AffiliationArgs == {None, <<>>, <<"u">>, <<"p", "k", "u">>}

\* the text returned when no condition is given, as one token
NoConditionText == <<"provide-at-least-one-condition">>

\* f"AU='{args.author}'"
AuthorClause(author) == <<"A", "U", "=", "'">> \o author \o <<"'">>

\* f"AF='{args.affiliation}'"
AffiliationClause(affiliation) ==
    <<"A", "F", "=", "'">> \o affiliation \o <<"'">>

\* " AND ".join(parts)
RECURSIVE JoinAnd(_)
JoinAnd(parts) ==
    IF Len(parts) = 0 THEN <<>>
    ELSE IF Len(parts) = 1 THEN parts[1]
    ELSE parts[1] \o <<" ", "A", "N", "D", " ">> \o JoinAnd(Tail(parts))

\* variant: the affiliation clause is appended first
generate_search_formula_AffiliationFirst(a) ==
    LET formula_parts ==
            (IF Truthy(a.affiliation)
             THEN <<AffiliationClause(a.affiliation)>> ELSE <<>>)
            \o (IF Truthy(a.author) THEN <<AuthorClause(a.author)>> ELSE <<>>)
    IN  IF formula_parts = <<>> THEN NoConditionText
        ELSE JoinAnd(formula_parts)

\* variant: an empty text is returned when no condition is given
generate_search_formula_EmptyWhenNone(a) ==
    LET formula_parts ==
            (IF Truthy(a.author) THEN <<AuthorClause(a.author)>> ELSE <<>>)
            \o (IF Truthy(a.affiliation)
                THEN <<AffiliationClause(a.affiliation)>> ELSE <<>>)
    IN  JoinAnd(formula_parts)

generate_search_formula(a) ==
    LET formula_parts ==
            (IF Truthy(a.author) THEN <<AuthorClause(a.author)>> ELSE <<>>)
            \o (IF Truthy(a.affiliation)
                THEN <<AffiliationClause(a.affiliation)>> ELSE <<>>)
    IN  IF formula_parts = <<>> THEN NoConditionText
        ELSE JoinAnd(formula_parts)

\* the command line is parsed; nothing else has run
InitCli ==
    /\ pc = "cli_start"
    /\ args \in [author : AuthorArgs, affiliation : AffiliationArgs]
    /\ analyzer = NoAnalyzer
    /\ search_formula = None
    /\ InitRun

\* main: the formula is generated, printed and passed to launch_cnki
CliMain ==
    /\ pc = "cli_start"
    /\ search_formula' = generate_search_formula(args)
    /\ Say("generated", 0)
    /\ pc' = "core_start"
    /\ UNCHANGED <<args, analyzer, filesCreated, disk, handle, buf,
                   paper_count, wpc, paper_data, ret, browser, closes, filled,
                   submitted, all_papers, current_page, rows, i, papers, idx,
                   result, hist>>

\* if not search_formula: print, return
CoreCheckFormula ==
    /\ pc = "core_start"
    /\ IF ~Truthy(search_formula)
       THEN /\ Say("no_formula", 0)
            /\ pc' = "done"
            /\ result' = "returned"
       ELSE /\ Say("formula", 0)
            /\ pc' = "core_launch"
            /\ UNCHANGED result
    /\ UNCHANGED <<args, analyzer, search_formula, filesCreated, disk, handle,
                   buf, paper_count, wpc, paper_data, ret, browser, closes,
                   filled, submitted, all_papers, current_page, rows, i,
                   papers, idx, hist>>

\* with sync_playwright(): launch, new_context, new_page
CoreOpenSession ==
    /\ pc = "core_launch"
    /\ browser' = "open"
    /\ hist' = [hist EXCEPT !.opens = @ + 1]
    /\ pc' = "core_goto"
    /\ UNCHANGED <<args, analyzer, search_formula, filesCreated, disk, handle,
                   buf, paper_count, wpc, paper_data, ret, closes, filled,
                   submitted, all_papers, current_page, rows, i, papers, idx,
                   out, result>>

\* nothing catches an exception of the body: the with block ends, which
\* stops the browser, and the exception leaves launch_cnki
CoreRaise ==
    /\ browser' = "closed"
    /\ pc' = "done"
    /\ result' = "raised"

\* page.goto(search page); major_search.click()
CoreGoto ==
    /\ pc = "core_goto"
    /\ \E at \in {"none", "goto", "click"} :
          CASE at = "none" ->
                  /\ Say("navigated", 0)
                  /\ pc' = "core_fill"
                  /\ UNCHANGED <<browser, result>>
            [] at = "goto" ->
                  /\ CoreRaise
                  /\ UNCHANGED out
            [] at = "click" ->
                  /\ Say("navigated", 0)
                  /\ CoreRaise
    /\ UNCHANGED <<args, analyzer, search_formula, filesCreated, disk, handle,
                   buf, paper_count, wpc, paper_data, ret, closes, filled,
                   submitted, all_papers, current_page, rows, i, papers, idx,
                   hist>>

\* text_area.fill(search_formula)
CoreFill ==
    /\ pc = "core_fill"
    /\ \E ok \in BOOLEAN :
          IF ok
          THEN /\ filled' = search_formula
               /\ pc' = "core_click"
               /\ UNCHANGED <<browser, result>>
          ELSE /\ CoreRaise
               /\ UNCHANGED filled
    /\ UNCHANGED <<args, analyzer, search_formula, filesCreated, disk, handle,
                   buf, paper_count, wpc, paper_data, ret, closes, submitted,
                   all_papers, current_page, rows, i, papers, idx, out, hist>>

\* search_button.click()
CoreClickSearch ==
    /\ pc = "core_click"
    /\ \E ok \in BOOLEAN :
          IF ok
          THEN /\ submitted' = TRUE
               /\ Say("press_enter", 0)
               /\ pc' = "core_input"
               /\ UNCHANGED <<browser, result>>
          ELSE /\ CoreRaise
               /\ UNCHANGED <<submitted, out>>
    /\ UNCHANGED <<args, analyzer, search_formula, filesCreated, disk, handle,
                   buf, paper_count, wpc, paper_data, ret, closes, filled,
                   all_papers, current_page, rows, i, papers, idx, hist>>

\* input(); browser.close()
CoreAwaitEnter ==
    /\ pc = "core_input"
    /\ \E ok \in BOOLEAN :
          IF ok
          THEN /\ browser' = "closed"
               /\ closes' = closes + 1
               /\ Say("browser_closed", 0)
               /\ pc' = "done"
               /\ result' = "returned"
          ELSE /\ CoreRaise
               /\ UNCHANGED <<closes, out>>
    /\ UNCHANGED <<args, analyzer, search_formula, filesCreated, disk, handle,
                   buf, paper_count, wpc, paper_data, ret, filled, submitted,
                   all_papers, current_page, rows, i, papers, idx, hist>>

NextCli ==
    \/ CliMain
    \/ CoreCheckFormula
    \/ CoreOpenSession
    \/ CoreGoto
    \/ CoreFill
    \/ CoreClickSearch
    \/ CoreAwaitEnter

SpecCli == InitCli /\ [][NextCli]_vars

-----------------------------------------------------------------------------
(* ai_analyze.EnhancedGeminiAnalyzer: constructed, then either              *)
(* call_gemini_api is called on it or analyze is.  The messages are named   *)
(* in English: "GEMINI_API_KEY_unset" is the message                        *)
(* 未设置GEMINI_API_KEY，无法调用API.                                        *)

\* data rows the CSV file given to analyze has at most
MaxCsvRows == 2

\* the api_key argument, and the environment variable
KeyValues == {None, <<>>, <<"k">>}

OpenAIClient == <<"OpenAI">>

InitAnalyzer ==
    /\ pc = "an_new"
    /\ args = NoArgs
    /\ \E p \in KeyValues, e \in KeyValues :
          analyzer = [NoAnalyzer EXCEPT !.passed = p, !.env = e]
    /\ search_formula = None
    /\ InitRun

\* __init__: self.api_key = api_key or os.getenv(...); the client exists
\* only with a key
Construct ==
    /\ pc = "an_new"
    /\ LET key == IF Truthy(analyzer.passed) THEN analyzer.passed
                  ELSE analyzer.env
       IN  /\ analyzer' = [analyzer EXCEPT
                             !.api_key = key,
                             !.client = IF Truthy(key) THEN OpenAIClient
                                        ELSE None]
           /\ IF ~Truthy(key) THEN Say("no_key_warning", 0) ELSE UNCHANGED out
    /\ pc' = "an_ready"
    /\ UNCHANGED <<args, search_formula, filesCreated, disk, handle, buf,
                   paper_count, wpc, paper_data, ret, browser, closes, filled,
                   submitted, all_papers, current_page, rows, i, papers, idx,
                   result, hist>>

\* a caller calls analyzer.call_gemini_api(prompt) itself
CallDirect ==
    /\ pc = "an_ready"
    /\ pc' = "an_call"
    /\ hist' = [hist EXCEPT !.path = "direct"]
    /\ UNCHANGED <<args, analyzer, search_formula, filesCreated, disk, handle,
                   buf, paper_count, wpc, paper_data, ret, browser, closes,
                   filled, submitted, all_papers, current_page, rows, i,
                   papers, idx, out, result>>

\* analyze: load_csv_data, the check for no data, preprocess_data and
\* generate_enhanced_prompt
AnalyzeLoad ==
    /\ pc = "an_ready"
    /\ hist' = [hist EXCEPT !.path = "analyze"]
    /\ \E file \in {"missing", "unreadable", "readable"}, n \in 0..MaxCsvRows :
          CASE file = "missing" ->
                  /\ analyzer' = [analyzer EXCEPT !.error = "csv_missing"]
                  /\ pc' = "an_except"
                  /\ Say("analysis_start", 0)
            [] file = "unreadable" ->
                  /\ analyzer' = [analyzer EXCEPT !.error = "csv_unreadable"]
                  /\ pc' = "an_except"
                  /\ Say("analysis_start", 0)
            [] file = "readable" /\ n = 0 ->
                  /\ analyzer' = [analyzer EXCEPT !.error = "no_data"]
                  /\ pc' = "an_except"
                  /\ out' = out \o << <<"analysis_start", 0>>,
                                      <<"loaded", 0>> >>
            [] OTHER ->
                  /\ pc' = "an_call"
                  /\ out' = out \o << <<"analysis_start", 0>>,
                                      <<"loaded", n>> >>
                  /\ UNCHANGED analyzer
    /\ UNCHANGED <<args, search_formula, filesCreated, disk, handle, buf,
                   paper_count, wpc, paper_data, ret, browser, closes, filled,
                   submitted, all_papers, current_page, rows, i, papers, idx,
                   result>>

\* where an exception of call_gemini_api or of save_analysis_report goes:
\* to the caller, or to the except of analyze
Thrown(message) ==
    /\ analyzer' = [analyzer EXCEPT !.error = message, !.calls = @ + 1]
    /\ IF hist.path = "direct"
       THEN pc' = "done" /\ result' = "raised"
       ELSE pc' = "an_except" /\ UNCHANGED result

\* variant: call_gemini_api without the check of self.api_key; the request
\* on the None client raises inside the try
call_gemini_api_Unguarded ==
    /\ pc = "an_call"
    /\ IF ~Truthy(analyzer.api_key)
       THEN /\ Thrown("api_failed")
            /\ Say("calling_api", 0)
       ELSE \E ok \in BOOLEAN :
               /\ Say("calling_api", 0)
               /\ IF ok
                  THEN /\ analyzer' = [analyzer EXCEPT !.requests = @ + 1,
                                                       !.calls = @ + 1]
                       /\ IF hist.path = "direct"
                          THEN pc' = "done" /\ result' = "returned"
                          ELSE pc' = "an_save" /\ UNCHANGED result
                  ELSE /\ analyzer' = [analyzer EXCEPT !.requests = @ + 1,
                                                       !.calls = @ + 1,
                                                       !.error = "api_failed"]
                       /\ IF hist.path = "direct"
                          THEN pc' = "done" /\ result' = "raised"
                          ELSE pc' = "an_except" /\ UNCHANGED result
    /\ UNCHANGED <<args, search_formula, filesCreated, disk, handle, buf,
                   paper_count, wpc, paper_data, ret, browser, closes, filled,
                   submitted, all_papers, current_page, rows, i, papers, idx,
                   hist>>

\* call_gemini_api: raises when there is no key, else issues the request,
\* whose failure is raised again as "API call failed"
call_gemini_api ==
    /\ pc = "an_call"
    /\ IF ~Truthy(analyzer.api_key)
       THEN /\ Thrown("GEMINI_API_KEY_unset")
            /\ UNCHANGED out
       ELSE \E ok \in BOOLEAN :
               /\ Say("calling_api", 0)
               /\ IF ok
                  THEN /\ analyzer' = [analyzer EXCEPT !.requests = @ + 1,
                                                       !.calls = @ + 1]
                       /\ IF hist.path = "direct"
                          THEN pc' = "done" /\ result' = "returned"
                          ELSE pc' = "an_save" /\ UNCHANGED result
                  ELSE /\ analyzer' = [analyzer EXCEPT !.requests = @ + 1,
                                                       !.calls = @ + 1,
                                                       !.error = "api_failed"]
                       /\ IF hist.path = "direct"
                          THEN pc' = "done" /\ result' = "raised"
                          ELSE pc' = "an_except" /\ UNCHANGED result
    /\ UNCHANGED <<args, search_formula, filesCreated, disk, handle, buf,
                   paper_count, wpc, paper_data, ret, browser, closes, filled,
                   submitted, all_papers, current_page, rows, i, papers, idx,
                   hist>>

\* save_analysis_report: the report file is opened with 'w' and written;
\* analyze prints the summary and returns the path
save_analysis_report ==
    /\ pc = "an_save"
    /\ \E at \in {"none", "open", "write"} :
          CASE at = "none" ->
                  /\ analyzer' = [analyzer EXCEPT !.reports = @ + 1]
                  /\ out' = out \o << <<"report_saved", 0>>,
                                      <<"analysis_done", 0>> >>
                  /\ pc' = "done"
                  /\ result' = "returned"
            [] at = "open" ->
                  /\ analyzer' = [analyzer EXCEPT !.error = "save_failed"]
                  /\ pc' = "an_except"
                  /\ UNCHANGED <<out, result>>
            [] at = "write" ->
                  /\ analyzer' = [analyzer EXCEPT !.error = "save_failed",
                                                  !.reports = @ + 1]
                  /\ pc' = "an_except"
                  /\ UNCHANGED <<out, result>>
    /\ UNCHANGED <<args, search_formula, filesCreated, disk, handle, buf,
                   paper_count, wpc, paper_data, ret, browser, closes, filled,
                   submitted, all_papers, current_page, rows, i, papers, idx,
                   hist>>

\* the except of analyze: the error is printed, sys.exit(1)
AnalyzeExcept ==
    /\ pc = "an_except"
    /\ Say("analysis_error", 0)
    /\ pc' = "done"
    /\ result' = "exited"
    /\ UNCHANGED <<args, analyzer, search_formula, filesCreated, disk, handle,
                   buf, paper_count, wpc, paper_data, ret, browser, closes,
                   filled, submitted, all_papers, current_page, rows, i,
                   papers, idx, hist>>

NextAnalyzer ==
    \/ Construct
    \/ CallDirect
    \/ AnalyzeLoad
    \/ call_gemini_api
    \/ save_analysis_report
    \/ AnalyzeExcept

SpecAnalyzer == InitAnalyzer /\ [][NextAnalyzer]_vars

-----------------------------------------------------------------------------
(* Properties *)

\* the fourteen field names in the declared order
DeclaredNames ==
    << "title", "author", "source", "date", "database", "quote", "download",
       "abstract", "keywords", "fund", "album", "topic", "classno", "DOI" >>

DeclaredHeader == [n \in 1..14 |-> <<DeclaredNames[n]>>]

\* the row a record is to be written as
ExpectedRow(rec) ==
    [n \in 1..14 |-> IF DeclaredNames[n] \in DOMAIN rec
                     THEN rec[DeclaredNames[n]] ELSE <<>>]

\* the data rows of the file
DataRows == IF disk = <<>> THEN <<>> ELSE Tail(disk)

Titled(seq) == SelectSeq(seq, HasTitle)

Printed(tag, n) == \E k \in 1..Len(out) : out[k] = <<tag, n>>

SessionStarted == browser # "none" \/ hist.opens > 0

ExtractionStarted ==
    current_page > 0 \/ hist.seen # <<>> \/ hist.detail # <<>>

\* C1: for a non-empty query exactly one output file is created, and its
\* header row, the fourteen field names in the declared order, is in the file
\* before the browser session is opened and before any list or detail
\* extraction begins.
C1_HeaderBeforeSession ==
    Truthy(search_formula) =>
        /\ filesCreated <= 1
        /\ (SessionStarted \/ ExtractionStarted \/ pc = "done") =>
              /\ filesCreated = 1
              /\ Len(disk) >= 1
              /\ disk[1] = DeclaredHeader

C1_Witness ==
    /\ Truthy(search_formula)
    /\ browser = "open"
    /\ hist.seen # <<>>
    /\ filesCreated = 1
    /\ disk = <<DeclaredHeader>>

\* C2: once the browser session is opened it is closed exactly once on every
\* exit path of launch_cnki: normal completion, the return when no papers
\* were found, the missing text area, an exception raised in the try body.
C2_SessionClosedOnce ==
    /\ closes <= 1
    /\ (pc = "done" /\ hist.opens > 0) =>
          /\ hist.path \in {"complete", "no_papers", "no_textarea", "exception"}
          /\ hist.opens = 1
          /\ browser = "closed"
          /\ closes = 1

C2_Witness ==
    /\ pc = "done"
    /\ hist.path = "exception"
    /\ hist.returned > 0
    /\ browser = "closed"
    /\ closes = 1

\* the writer's caller is between two calls
BetweenCalls == pc = "test" /\ wpc \in {"idle", "returned"}

WriterCounts ==
    LET N == Len(hist.calls)
    IN  /\ Len(disk) = N + 1
        /\ disk[1] = DeclaredHeader
        /\ \A k \in 1..N : disk[k + 1][1] = Get(hist.calls[k], "title", <<>>)
        /\ get_count = N

\* C3 as amended: N write_paper calls leave a file of one header row and N
\* data rows (a repeated record is written again), each call adds one to
\* the running count and returns None, and get_count() is N after the N-th
\* call.
C3_WriterCounts ==
    BetweenCalls => (WriterCounts /\ (wpc = "returned" => ret = {}))

\* C3 as claimed: each call also returns the running count.
C3_Original ==
    BetweenCalls => (WriterCounts /\ (wpc = "returned" => ret = {get_count}))

C3_Witness ==
    /\ pc = "test"
    /\ wpc = "returned"
    /\ Len(hist.calls) = 3
    /\ hist.calls[1] = hist.calls[2]
    /\ Len(disk) = 4
    /\ get_count = 3

\* C4: every data row the writer emits has exactly the fourteen fields in
\* header order whatever keys the record has: a missing field is the empty
\* string, and a key outside the fixed set (the detail link) is not written.
C4_FixedFields ==
    \A k \in 1..Len(DataRows) :
        LET rec == hist.calls[k]
        IN  /\ Len(DataRows[k]) = 14
            /\ \A n \in 1..14 :
                  /\ DeclaredNames[n] \in DOMAIN rec =>
                        DataRows[k][n] = rec[DeclaredNames[n]]
                  /\ DeclaredNames[n] \notin DOMAIN rec => DataRows[k][n] = <<>>
                  /\ "link" \in DOMAIN rec => DataRows[k][n] # rec["link"]

C4_Witness ==
    \E k \in 1..Len(DataRows) :
        /\ "link" \in DOMAIN hist.calls[k]
        /\ "abstract" \notin DOMAIN hist.calls[k]
        /\ "DOI" \in DOMAIN hist.calls[k]
        /\ DataRows[k][8] = <<>>
        /\ DataRows[k][14] = hist.calls[k]["DOI"]

\* every page rendered and no probe of a row or of the next control raised
CleanListing ==
    /\ hist.renderFailed = 0
    /\ ~hist.pageError
    /\ \A k \in 1..Len(hist.seen) : hist.seen[k].fault = "none"

\* C5: for a result set of several pages in which every page renders (and no
\* probe raises), the run writes one data row per titled row, in page order
\* and in row order within a page, and the count it reports at the end is
\* the number of those rows.
C5_RowPerTitledRow ==
    (pc = "done" /\ hist.path = "complete" /\ CleanListing) =>
        LET titled == Titled(hist.seen)
        IN  /\ Len(DataRows) = Len(titled)
            /\ \A k \in 1..Len(titled) :
                  DataRows[k][1] = Strip(IF titled[k].fz14 # None
                                         THEN titled[k].fz14
                                         ELSE titled[k].anchor)
            /\ Printed("processed", Len(titled))
            /\ \A n \in 0..MaxResults :
                  Printed("processed", n) => n = Len(titled)

C5_Witness ==
    /\ pc = "done"
    /\ hist.path = "complete"
    /\ CleanListing
    /\ current_page = 2
    /\ Len(rows) = 1
    /\ Len(hist.seen) = 3
    /\ Len(Titled(hist.seen)) = 3
    /\ hist.seen[1] # hist.seen[2]
    /\ Len(DataRows) = 3
    /\ Printed("processed", 3)

\* C6: when the results container never renders on the first page the run
\* writes no record, the file holds exactly the header row, and launch_cnki
\* returns without raising.
C6_NoRenderNoRecords ==
    hist.renderFailed = 1 =>
        /\ disk = <<DeclaredHeader>>
        /\ get_count = 0
        /\ hist.calls = <<>>
        /\ result # "raised"
        /\ pc = "done" => result = "returned"

C6_Witness ==
    /\ pc = "done"
    /\ hist.renderFailed = 1
    /\ result = "returned"
    /\ disk = <<DeclaredHeader>>

\* C7: a row with no title under td.name a.fz14 and under td.name a gives no
\* record: it is not added to the list, no row is appended to the file for
\* it and the count is not incremented, so the file never has more data
\* rows than rows were observed.
C7_UntitledRowSkipped ==
    LET titled == Len(Titled(hist.seen))
    IN  /\ Len(all_papers) <= titled
        /\ Len(papers) <= titled
        /\ Len(DataRows) <= titled
        /\ get_count <= titled
        /\ Len(DataRows) <= Len(hist.seen)
        /\ \A k \in 1..Len(all_papers) : Get(all_papers[k], "title", <<>>) # <<>>

C7_Witness ==
    /\ pc = "done"
    /\ \E k \in 1..Len(hist.seen) : ~HasTitle(hist.seen[k])
    /\ Len(DataRows) = 2
    /\ Len(hist.seen) = 3
    /\ get_count = 2

\* C8: when the detail extraction of a record raises, the record written has
\* the empty string in each of abstract, keywords, fund, album, topic,
\* classno and DOI, its seven primary fields are the values taken from the
\* list page, and the record is still written.
C8_DetailFailureEmptiesDetails ==
    /\ \A k \in 1..Len(DataRows) :
          hist.detail[k] = "raised" =>
              /\ \A n \in 8..14 : DataRows[k][n] = <<>>
              /\ \A n \in 1..7 : DataRows[k][n] = hist.listed[k][DeclaredNames[n]]
    /\ \A k \in 1..Len(hist.detail) :
          (hist.detail[k] = "raised" /\ (k < idx \/ pc \notin {"write", "in_write"}))
              => Len(DataRows) >= k

C8_Witness ==
    \E k \in 1..Len(DataRows) :
        /\ hist.detail[k] = "raised"
        /\ DataRows[k][1] = <<"B">>
        /\ DataRows[k][6] = <<"0">>
        /\ DataRows[k][8] = <<>>

\* the rows of the write_paper calls that have returned
ReturnedRows == [k \in 1..hist.returned |-> ExpectedRow(hist.calls[k])]

IsPrefix(s, t) == Len(s) <= Len(t) /\ SubSeq(t, 1, Len(s)) = s

NoHandleBetweenOperations == handle => wpc \in {"row", "close"}

\* C9 as claimed: after the writer is constructed the file is, at any point,
\* the header row followed by exactly one row for each write_paper call that
\* has returned, in call order, and no file object is open between the
\* writer's operations.
C9_Original ==
    filesCreated > 0 =>
        /\ disk = <<DeclaredHeader>> \o ReturnedRows
        /\ NoHandleBetweenOperations

C9_FileAtInterrupt ==
    filesCreated > 0 =>
        /\ NoHandleBetweenOperations
        /\ \/ disk = <<DeclaredHeader>> \o ReturnedRows
           \/ /\ pc = "interrupted"
              /\ result = "raised"
              /\ Len(hist.calls) = hist.returned + 1
              /\ disk = <<DeclaredHeader>> \o ReturnedRows
                            \o <<ExpectedRow(hist.calls[hist.returned + 1])>>

\* C9 as amended: after the writer is constructed the file is, at any point,
\* the header row followed by one complete row for each write_paper call
\* that has returned, in call order, and, when the interruption came while a
\* call had written its row and not yet returned, the complete row of that
\* call; no file object is open between the writer's operations, and no
\* step removes or rewrites a row of the file.
C9_DurableRows ==
    [][ /\ C9_FileAtInterrupt'
        /\ filesCreated > 0 => IsPrefix(disk, disk') ]_vars

C9_Witness ==
    /\ pc = "interrupted"
    /\ hist.returned = 1
    /\ Len(hist.calls) = 2
    /\ Len(disk) = 3

\* C10: given an empty or absent query launch_cnki reports the error and
\* returns at once: no output file is created, no browser session is opened
\* and no search is submitted.
C10_EmptyQueryFailsFast ==
    ~(search_formula # None /\ search_formula # <<>>) =>
        /\ filesCreated = 0
        /\ disk = <<>>
        /\ browser = "none"
        /\ hist.opens = 0
        /\ filled = None
        /\ ~submitted
        /\ pc \in {"start", "done"}
        /\ pc = "done" => (out = << <<"no_formula", 0>> >> /\ result = "returned")

C10_Witness ==
    /\ search_formula = <<>>
    /\ pc = "done"
    /\ out = << <<"no_formula", 0>> >>
    /\ filesCreated = 0
    /\ browser = "none"


\* C11: when the query text area is not found on the search page, no query
\* is filled in, the search is not activated, no extraction takes place, the
\* file keeps only its header, the "input not found" message is reported and
\* the browser session is torn down.
C11_NoTextAreaAborts ==
    hist.path = "no_textarea" =>
        /\ pc \in {"finally", "done"}
        /\ filled = None
        /\ ~submitted
        /\ current_page = 0
        /\ hist.seen = <<>>
        /\ hist.listed = <<>>
        /\ hist.detail = <<>>
        /\ hist.calls = <<>>
        /\ get_count = 0
        /\ disk = <<DeclaredHeader>>
        /\ Printed("no_textarea", 0)
        /\ ~hist.bodyRaised
        /\ pc = "done" =>
              /\ browser = "closed"
              /\ closes = 1
              /\ result = "returned"

C11_Witness ==
    /\ hist.path = "no_textarea"
    /\ pc = "done"
    /\ browser = "closed"
    /\ search_formula = <<"A", "U", "=", "z">>
    /\ disk = <<DeclaredHeader>>


\* the number of times a message was printed
TimesPrinted(tag) == Cardinality({k \in 1..Len(out) : out[k][1] = tag})

\* C12: when the output file cannot be created (its open or its header write
\* fails) the failure is reported once and raised to the caller of
\* launch_cnki without a second attempt, and no browser session is opened and
\* no extraction is run.
C12_CreateFailureRaised ==
    hist.path = "csv_error" =>
        /\ pc = "done"
        /\ result = "raised"
        /\ TimesPrinted("csv_init_error") = 1
        /\ TimesPrinted("csv_created") = 0
        /\ filesCreated <= 1
        /\ disk = <<>>
        /\ ~SessionStarted
        /\ closes = 0
        /\ ~ExtractionStarted
        /\ filled = None
        /\ ~submitted
        /\ hist.calls = <<>>
        /\ ~hist.bodyRaised

C12_Witness ==
    /\ hist.path = "csv_error"
    /\ pc = "done"
    /\ result = "raised"
    /\ filesCreated = 0
    /\ browser = "none"


\* the text without its leading and trailing whitespace
Trimmed(t) ==
    LET inner == {n \in 1..Len(t) : t[n] \notin Whitespace}
    IN  IF inner = {} THEN <<>>
        ELSE SubSeq(t, CHOOSE n \in inner : \A m \in inner : n <= m,
                       CHOOSE n \in inner : \A m \in inner : n >= m)

\* C13: the date stored for a row is the part of the stripped date cell text
\* before its first space character, the whole stripped text when it holds
\* no space, and the empty string when the row has no date cell.
C13_DateBeforeFirstSpace ==
    (pc = "next" /\ Len(all_papers) = 1) =>
        LET cell   == rows[1].date
            stored == all_papers[1].date
        IN  IF cell = None
            THEN stored = <<>>
            ELSE /\ IsPrefix(stored, Trimmed(cell))
                 /\ \A n \in 1..Len(stored) : stored[n] # " "
                 /\ \/ Len(stored) = Len(Trimmed(cell))
                    \/ Trimmed(cell)[Len(stored) + 1] = " "

C13_Witness ==
    /\ pc = "next"
    /\ Len(all_papers) = 1
    /\ rows[1].date = <<"2", "\t", "2", " ">>
    /\ all_papers[1].date = <<"2", "\t", "2">>


\* a probe of the row raises before the row is appended
RowRaises(r) == r.fault # "none" /\ (r.fault = "title" \/ HasTitle(r))

\* C14: an exception raised while one results row is probed ends that row
\* only: the error is printed, no record (not even a partly filled one) is
\* added for the row, the records collected before stay as they are, nothing
\* is counted or written, and the loop goes on to the next row of the page.
C14_FaultyRowOnly ==
    [][ (pc = "row" /\ i < Len(rows) /\ RowRaises(rows[i + 1])) =>
            /\ all_papers' = all_papers
            /\ out' = Append(out, <<"row_error", i + 1>>)
            /\ rows' = rows
            /\ i' = i + 1
            /\ pc' = (IF i + 1 < Len(rows) THEN "row" ELSE "next")
            /\ current_page' = current_page
            /\ paper_count' = paper_count
            /\ disk' = disk
            /\ ~hist'.bodyRaised ]_vars

C14_Witness ==
    /\ pc = "next"
    /\ rows = <<RowFull, RowBroken>>
    /\ current_page = 2
    /\ hist.seen = <<RowNoLink, RowFull, RowBroken>>
    /\ Len(all_papers) = 2
    /\ all_papers[1].title = <<"C">>
    /\ all_papers[2].title = <<"A">>
    /\ Printed("row_error", 2)


\* the page loop ended on a failure after the first page was rendered
PageFailure == hist.renderFailed > 1 \/ hist.pageError

\* the row gives a record
Recorded(r) == HasTitle(r) /\ r.fault = "none"

\* the rows extracted before the page loop ended
Extracted == SelectSeq(hist.seen, Recorded)

TitleOf(r) == Strip(IF r.fz14 # None THEN r.fz14 ELSE r.anchor)

\* C15: when the results container does not render on a page after the
\* first, or probing or activating the next-page control raises, the page
\* loop ends and the exception does not leave extract_paper_info; it returns
\* the records of every row extracted so far, in order, and the run then
\* writes those records to the file.
C15_PageFailureKeepsRecords ==
    PageFailure =>
        /\ pc \notin {"page", "row", "next"}
        /\ pc = "list_done" =>
              /\ ~hist.bodyRaised
              /\ Len(all_papers) = Len(Extracted)
        /\ pc # "list_done" =>
              /\ Len(hist.listed) = Len(Extracted)
              /\ \A k \in 1..Len(Extracted) :
                    hist.listed[k].title = TitleOf(Extracted[k])
        /\ pc \in {"detail", "write", "in_write", "input"} => ~hist.bodyRaised
        /\ pc \in {"input", "except", "finally", "done"} =>
              /\ Len(DataRows) = Len(Extracted)
              /\ \A k \in 1..Len(Extracted) :
                    DataRows[k][1] = TitleOf(Extracted[k])

C15_Witness ==
    /\ hist.renderFailed = 2
    /\ pc = "done"
    /\ hist.path = "complete"
    /\ hist.seen = <<RowFallback, RowFull>>
    /\ Len(DataRows) = 2
    /\ DataRows[1][1] = <<"B">>
    /\ DataRows[2][1] = <<"A">>


\* the option was given a value (argparse gives None for an absent option,
\* and an empty value is no value)
Given(v) == v # None /\ Len(v) > 0

\* the position is inside aitutor_core.launch_cnki, or after it
InLaunch == pc # "cli_start"

\* C17: with an author and an affiliation given the expression is
\* AU='<author>' AND AF='<affiliation>', with one of them given it is that
\* one clause with no AND, and launch_cnki is called with the expression,
\* which is what it fills into the query text area.
C17_FormulaAssembled ==
    InLaunch =>
        /\ (Given(args.author) /\ Given(args.affiliation)) =>
              search_formula =
                  <<"A", "U", "=", "'">> \o args.author
                  \o <<"'", " ", "A", "N", "D", " ", "A", "F", "=", "'">>
                  \o args.affiliation \o <<"'">>
        /\ (Given(args.author) /\ ~Given(args.affiliation)) =>
              search_formula = <<"A", "U", "=", "'">> \o args.author \o <<"'">>
        /\ (~Given(args.author) /\ Given(args.affiliation)) =>
              search_formula =
                  <<"A", "F", "=", "'">> \o args.affiliation \o <<"'">>
        /\ filled \in {None, search_formula}
        /\ submitted => filled = search_formula

C17_Witness ==
    /\ args = [author |-> <<"l", "i">>, affiliation |-> <<"p", "k", "u">>]
    /\ pc = "done"
    /\ result = "returned"
    /\ submitted
    /\ filled = << "A", "U", "=", "'", "l", "i", "'", " ", "A", "N", "D", " ",
                   "A", "F", "=", "'", "p", "k", "u", "'" >>


\* no key was passed to the constructor and GEMINI_API_KEY is not set
NoApiKey == analyzer.passed = None /\ analyzer.env = None

\* C16: an analyzer constructed with no API key has no client, a call of
\* call_gemini_api on it raises the "GEMINI_API_KEY not set" error and issues
\* no API request, and analyze on it writes no report file.
C16_NoKeyNoRequest ==
    (NoApiKey /\ pc # "an_new") =>
        /\ analyzer.client = None
        /\ analyzer.requests = 0
        /\ analyzer.reports = 0
        /\ ~Printed("calling_api", 0)
        /\ ~Printed("report_saved", 0)
        /\ pc # "an_save"
        /\ analyzer.calls > 0 => analyzer.error = "GEMINI_API_KEY_unset"
        /\ (pc = "done" /\ hist.path = "direct") =>
              /\ analyzer.calls = 1
              /\ result = "raised"
        /\ (pc = "done" /\ hist.path = "analyze") => result = "exited"

C16_Witness ==
    /\ NoApiKey
    /\ pc = "done"
    /\ hist.path = "analyze"
    /\ Printed("loaded", 1)
    /\ analyzer.calls = 1
    /\ analyzer.error = "GEMINI_API_KEY_unset"
    /\ analyzer.reports = 0


\* the page loop of extract_paper_info is running
InPageLoop == pc \in {"page", "row", "next"}

\* the step printed that the page has no row, that there is no next page,
\* or a page-level error
StopPrinted ==
    /\ Len(out') = Len(out) + 1
    /\ \/ out'[Len(out')] = <<"rows_found", 0>>
       \/ out'[Len(out')][1] \in {"no_more_pages", "page_error", "turn_error"}

\* what a step may do to the page cursor and to the page loop
CursorStep ==
    /\ (current_page = 0 /\ current_page' # 0) =>
          (current_page' = 1 /\ pc' = "page" /\ submitted')
    /\ (current_page # 0 /\ current_page' # current_page) =>
          /\ current_page' = current_page + 1
          /\ pc = "next"
          /\ pc' = "page"
    /\ (pc = "next" /\ pc' = "page") => current_page' = current_page + 1
    /\ (InPageLoop /\ StopPrinted) => pc' = "list_done"
    /\ (InPageLoop /\ ~InPageLoop') => (pc' = "list_done" /\ StopPrinted)

\* C18: the page cursor starts at 1 and goes up by exactly 1 on a successful
\* next-page activation and at no other step; the page loop ends at the
\* step that finds a page with no row, no enabled next control, or a
\* page-level error, and at no other step; the page loop of a result set of
\* finitely many pages always ends.
C18_CursorAndTermination ==
    /\ [][CursorStep]_vars
    /\ InPageLoop ~> (pc = "list_done")

\* the cursor reaches the last page the site serves: nothing but the site
\* bounds the pages visited
C18_Witness ==
    /\ current_page = MaxPages
    /\ MaxPages > 1
    /\ pc = "list_done"
    /\ Len(all_papers) = MaxResults
    /\ Printed("no_more_pages", MaxPages)


\* C19: the records are processed one at a time in the order of the list:
\* the detail extraction of record idx (when it has a link) is over before
\* the record is given to write_paper, write_paper has returned and the row
\* is in the file before the detail extraction of record idx + 1 begins, and
\* no listing, detail extraction or write is in progress during another.
C19_OneRecordAtATime ==
    /\ hist.returned <= Len(hist.calls)
    /\ Len(hist.calls) <= Len(hist.detail)
    /\ Len(hist.detail) <= hist.returned + 1
    /\ Len(hist.detail) <= Len(hist.listed)
    /\ \A k \in 1..Len(hist.detail) :
          hist.detail[k] = "none" <=> ~Truthy(hist.listed[k].link)
    /\ \A k \in 1..Len(hist.calls) :
          /\ hist.calls[k].title = hist.listed[k].title
          /\ "link" \notin DOMAIN hist.calls[k]
          /\ hist.detail[k] = "ok" => Truthy(hist.calls[k].abstract)
    /\ pc = "detail" =>
          /\ Len(hist.detail) = idx - 1
          /\ hist.returned = idx - 1
          /\ Len(DataRows) = idx - 1
    /\ pc = "write" =>
          /\ Len(hist.detail) = idx
          /\ Len(hist.calls) = idx - 1
          /\ hist.returned = idx - 1
    /\ pc = "in_write" =>
          /\ Len(hist.detail) = idx
          /\ Len(hist.calls) = idx
          /\ hist.returned = idx <=> wpc = "returned"
    /\ (wpc # "idle" \/ handle) => pc = "in_write"
    /\ (InPageLoop \/ pc = "list_done") =>
          (hist.detail = <<>> /\ hist.calls = <<>>)

C19_Witness ==
    /\ pc = "detail"
    /\ idx = 3
    /\ hist.detail = <<"ok", "none">>
    /\ hist.returned = 2
    /\ Len(DataRows) = 2
    /\ Len(hist.listed) = 3


\* extract_paper_info is running, or was when the run was interrupted
ListInProgress ==
    \/ InPageLoop
    \/ pc = "list_done"
    \/ pc = "interrupted" /\ hist.at \in {"page", "row", "next", "list_done"}

\* C20: no record is written while the pages are listed: all rows are
\* collected in memory and the first write comes after extract_paper_info
\* has returned, so a run interrupted or killed during the listing leaves a
\* file with the header only, however many pages were listed.
C20_NoWriteWhileListing ==
    /\ ListInProgress =>
          /\ disk = <<DeclaredHeader>>
          /\ buf = <<>>
          /\ ~handle
          /\ get_count = 0
          /\ hist.calls = <<>>
          /\ hist.listed = <<>>
    /\ (hist.calls # <<>> \/ Len(disk) > 1 \/ buf # <<>>) =>
          (hist.listed # <<>> /\ hist.listed = all_papers)

C20_Witness ==
    /\ pc = "interrupted"
    /\ hist.at = "next"
    /\ current_page = 2
    /\ Len(all_papers) = 3
    /\ disk = <<DeclaredHeader>>


\* no write_paper call is in progress
WriterAtRest == wpc \in {"idle", "returned"}

\* write_paper calls that printed an error
FailedWrites == TimesPrinted("write_error")

\* C21 as claimed: a failure inside write_paper is caught, leaves the running
\* count as it was and lets the run go on with the next record, so that
\* get_count() is the number of write_paper calls that succeeded (the calls
\* that returned without an error, whose rows are in the file) and is never
\* more than the number of calls made.
C21_Original ==
    /\ get_count <= Len(hist.calls)
    /\ WriterAtRest =>
          /\ get_count = hist.returned - FailedWrites
          /\ filesCreated > 0 => get_count = Len(DataRows)
    /\ hist.returned > 0 => ~hist.bodyRaised \/ pc \in {"except", "finally", "done"}


\* C22: run with neither an author nor an affiliation, the command line
\* generates the non-empty text "provide at least one condition" and not an
\* empty value; main passes it to launch_cnki, whose check for an empty
\* query does not fire, and it is that text which is filled into the query
\* text area and submitted.
C22_PlaceholderSubmitted ==
    (~Given(args.author) /\ ~Given(args.affiliation) /\ InLaunch) =>
        /\ search_formula = NoConditionText
        /\ search_formula # None
        /\ Len(search_formula) > 0
        /\ ~Printed("no_formula", 0)
        /\ pc # "core_start" => Printed("formula", 0)
        /\ pc \notin {"core_start", "core_launch"} => SessionStarted
        /\ filled \in {None, NoConditionText}
        /\ submitted => filled = NoConditionText

C22_Witness ==
    /\ args = NoArgs
    /\ pc = "done"
    /\ result = "returned"
    /\ submitted
    /\ filled = NoConditionText
    /\ closes = 1

====
